---- MODULE Spec2Model ----
(***************************************************************************)
(* Claims management backend: the in-memory ClaimsManager (manager.py) and *)
(* the Flask/SQLAlchemy HTTP API (app.py), as state machines over the      *)
(* policyholder, policy and claim stores.                                  *)
(***************************************************************************)
EXTENDS Integers, Sequences, FiniteSets, TLC

VARIABLES
    policyholders,   \* ClaimsManager.policyholders : id -> Policyholder
    policies,        \* ClaimsManager.policies      : id -> Policy
    claims,          \* ClaimsManager.claims        : id -> Claim
    db,              \* the committed tables behind the HTTP API
    sess,            \* concurrent requests: each worker's SQLAlchemy session
    base,            \* the tables as they were when the concurrent requests began
    last             \* the last call (operation, id) and its outcome

mvars == <<policyholders, policies, claims>>
cvars == <<sess, base>>
vars == <<policyholders, policies, claims, db, sess, base, last>>

(***************************************************************************)
(* Bounds of the model and the input universes drawn from them.            *)
(***************************************************************************)
MaxAmount == 1
MaxDate == 3
MaxKwargs == 2

\* ids that calls create, and the ids a foreign key argument may name: those
\* and one that no call ever creates
PhIds == {"ph1"}
PolIds == {"p1"}
ClaimIds == {"c1"}
PhRefs == PhIds \cup {"ph0"}
PolRefs == PolIds \cup {"p0"}
Names == {"Alice"}
Contacts == {"alice@email.com"}
PolicyTypes == {"Home"}
Descriptions == {"Fire Damage"}
StatusInputs == {"Pending", "Bogus"}
Amounts == 0..MaxAmount
Dates == 1..MaxDate

Empty == << >>

\* dict[key] = value, and del dict[key]
Put(d, k, v) == [x \in DOMAIN d \cup {k} |-> IF x = k THEN v ELSE d[x]]
Del(d, k) == [x \in DOMAIN d \ {k} |-> d[x]]

(***************************************************************************)
(* entities.py: the three dataclasses.                                     *)
(***************************************************************************)
Policyholder(id, name, contact) ==
    [policyholder_id |-> id, name |-> name, contact_info |-> contact]

Policy(id, type, coverage, start, end, ph) ==
    [policy_id |-> id, policy_type |-> type, coverage_amount |-> coverage,
     start_date |-> start, end_date |-> end, policyholder_id |-> ph]

Claim(id, description, amount, date, status, pol) ==
    [claim_id |-> id, description |-> description, amount |-> amount,
     date |-> date, status |-> status, policy_id |-> pol]

PolicyholderInputs ==
    {Policyholder(i, n, c) : i \in PhIds, n \in Names, c \in Contacts}

PolicyInputs ==
    {Policy(i, t, a, s, e, ph) : i \in PolIds, t \in PolicyTypes, a \in Amounts,
                                 s \in Dates, e \in Dates, ph \in PhRefs}

ClaimInputs ==
    {Claim(i, d, a, dt, st, p) : i \in ClaimIds, d \in Descriptions, a \in Amounts,
                                 dt \in Dates, st \in StatusInputs, p \in PolRefs}

\* one keyword argument of an update_* call
Kw(k, v) == [key |-> k, value |-> v]

\* **kwargs: an ordered mapping, so a sequence of pairs with distinct keys
KwargsOver(pairs) ==
    UNION {{kw \in [1..n -> pairs] :
               \A i, j \in 1..n : i # j => kw[i].key # kw[j].key} : n \in 0..MaxKwargs}

PolicyholderKwPairs ==
    {Kw("name", n) : n \in Names} \cup {Kw("contact_info", c) : c \in Contacts}
    \cup {Kw("policyholder_id", i) : i \in PhRefs} \cup {Kw("email", "x")}

PolicyKwPairs ==
    {Kw("coverage_amount", a) : a \in Amounts}
    \cup {Kw("start_date", d) : d \in Dates} \cup {Kw("end_date", d) : d \in Dates}
    \cup {Kw("policyholder_id", i) : i \in PhRefs} \cup {Kw("premium", 0)}

ClaimKwPairs ==
    {Kw("amount", a) : a \in Amounts} \cup {Kw("date", d) : d \in Dates}
    \cup {Kw("status", s) : s \in StatusInputs}
    \cup {Kw("policy_id", i) : i \in PolRefs} \cup {Kw("notes", "x")}

PolicyholderKwargs == KwargsOver(PolicyholderKwPairs)
PolicyKwargs == KwargsOver(PolicyKwPairs)
ClaimKwargs == KwargsOver(ClaimKwPairs)

(***************************************************************************)
(* The outcome of a call: the exception raised (or "None") and its text.   *)
(***************************************************************************)
Outcome(op, id, exc, msg) == [op |-> op, id |-> id, exc |-> exc, msg |-> msg]

Returned(op, id) == Outcome(op, id, "None", "")

\* the loop of update_*: setattr for each key the object has, in order, and
\* AttributeError at the first key it lacks (earlier keys stay applied)
RECURSIVE SetAttrs(_, _)
SetAttrs(obj, kwargs) ==
    IF kwargs = Empty
    THEN [obj |-> obj, exc |-> "None", msg |-> ""]
    ELSE LET kv == Head(kwargs)
         IN  IF kv.key \in DOMAIN obj
             THEN SetAttrs([obj EXCEPT ![kv.key] = kv.value], Tail(kwargs))
             ELSE [obj |-> obj, exc |-> "AttributeError", msg |-> "Invalid field"]

\* the call binding that lets a keyword named like the id parameter through
HasKey_unchecked(kwargs, k) == FALSE

\* a keyword named like the positional id parameter: the call itself raises
\* TypeError (multiple values for the argument) before the body runs
HasKey(kwargs, k) == \E i \in 1..Len(kwargs) : kwargs[i].key = k

(***************************************************************************)
(* ClaimsManager (manager.py)                                              *)
(***************************************************************************)
\* A value returned by get_*: a reference to the object held in a store (the
\* object itself, whose fields are read through the store), or None.
Ref(store, id) == [store |-> store, id |-> id]
None == [store |-> "None", id |-> ""]

\* the fields of the object a reference leads to, in the given stores
Deref(r, phs, pols, cls) ==
    CASE r.store = "policyholders" -> phs[r.id]
      [] r.store = "policies" -> pols[r.id]
      [] r.store = "claims" -> cls[r.id]

\* create_policyholder on the current stores: the dict it leaves and what it raises
create_policyholder(ph) ==
    IF ph.policyholder_id \in DOMAIN policyholders
    THEN [policyholders |-> policyholders, exc |-> "ValueError",
          msg |-> "Policyholder ID already exists"]
    ELSE [policyholders |-> Put(policyholders, ph.policyholder_id, ph),
          exc |-> "None", msg |-> ""]

M_create_policyholder(ph) ==
    /\ UNCHANGED <<db, cvars>>
    /\ LET r == create_policyholder(ph)
       IN  /\ policyholders' = r.policyholders
           /\ last' = Outcome("create_policyholder", ph.policyholder_id, r.exc, r.msg)
           /\ UNCHANGED <<policies, claims>>

\* self.policyholders.get(policyholder_id)
get_policyholder(id) ==
    IF id \in DOMAIN policyholders THEN Ref("policyholders", id) ELSE None

M_get_policyholder(id) ==
    /\ UNCHANGED <<db, cvars>>
    /\ last' = Returned("get_policyholder", id)
    /\ UNCHANGED mvars

M_update_policyholder(id, kwargs) ==
    /\ UNCHANGED <<db, cvars>>
    /\ IF HasKey(kwargs, "policyholder_id")
       THEN /\ last' = Outcome("update_policyholder", id, "TypeError",
                               "multiple values for argument")
            /\ UNCHANGED mvars
       ELSE IF id \notin DOMAIN policyholders
       THEN /\ last' = Outcome("update_policyholder", id, "ValueError",
                               "Policyholder not found")
            /\ UNCHANGED mvars
       ELSE LET r == SetAttrs(policyholders[id], kwargs)
            IN  /\ policyholders' = [policyholders EXCEPT ![id] = r.obj]
                /\ last' = Outcome("update_policyholder", id, r.exc, r.msg)
                /\ UNCHANGED <<policies, claims>>

M_delete_policyholder(id) ==
    /\ UNCHANGED <<db, cvars>>
    /\ IF id \notin DOMAIN policyholders
       THEN /\ last' = Outcome("delete_policyholder", id, "ValueError",
                               "Policyholder not found")
            /\ UNCHANGED mvars
       ELSE IF \E p \in DOMAIN policies : policies[p].policyholder_id = id
       THEN /\ last' = Outcome("delete_policyholder", id, "ValueError",
                               "Policyholder has existing policies")
            /\ UNCHANGED mvars
       ELSE /\ policyholders' = Del(policyholders, id)
            /\ last' = Returned("delete_policyholder", id)
            /\ UNCHANGED <<policies, claims>>

\* create_policy on the current stores: the dict it leaves and what it raises
create_policy(policy) ==
    LET Raise(msg) == [policies |-> policies, exc |-> "ValueError", msg |-> msg]
    IN  IF policy.policy_id \in DOMAIN policies
        THEN Raise("Policy ID already exists")
        ELSE IF policy.policyholder_id \notin DOMAIN policyholders
        THEN Raise("Policyholder does not exist")
        ELSE IF policy.start_date > policy.end_date
        THEN Raise("Invalid policy dates")
        ELSE [policies |-> Put(policies, policy.policy_id, policy),
              exc |-> "None", msg |-> ""]

M_create_policy(policy) ==
    /\ UNCHANGED <<db, cvars>>
    /\ LET r == create_policy(policy)
       IN  /\ policies' = r.policies
           /\ last' = Outcome("create_policy", policy.policy_id, r.exc, r.msg)
           /\ UNCHANGED <<policyholders, claims>>

\* self.policies.get(policy_id)
get_policy(id) ==
    IF id \in DOMAIN policies THEN Ref("policies", id) ELSE None

M_get_policy(id) ==
    /\ UNCHANGED <<db, cvars>>
    /\ last' = Returned("get_policy", id)
    /\ UNCHANGED mvars

M_update_policy(id, kwargs) ==
    /\ UNCHANGED <<db, cvars>>
    /\ IF HasKey(kwargs, "policy_id")
       THEN /\ last' = Outcome("update_policy", id, "TypeError",
                               "multiple values for argument")
            /\ UNCHANGED mvars
       ELSE IF id \notin DOMAIN policies
       THEN /\ last' = Outcome("update_policy", id, "ValueError", "Policy not found")
            /\ UNCHANGED mvars
       ELSE LET r == SetAttrs(policies[id], kwargs)
            IN  /\ policies' = [policies EXCEPT ![id] = r.obj]
                /\ last' = Outcome("update_policy", id, r.exc, r.msg)
                /\ UNCHANGED <<policyholders, claims>>

M_delete_policy(id) ==
    /\ UNCHANGED <<db, cvars>>
    /\ IF id \notin DOMAIN policies
       THEN /\ last' = Outcome("delete_policy", id, "ValueError", "Policy not found")
            /\ UNCHANGED mvars
       ELSE IF \E c \in DOMAIN claims : claims[c].policy_id = id
       THEN /\ last' = Outcome("delete_policy", id, "ValueError",
                               "Policy has existing claims")
            /\ UNCHANGED mvars
       ELSE /\ policies' = Del(policies, id)
            /\ last' = Returned("delete_policy", id)
            /\ UNCHANGED <<policyholders, claims>>

\* create_claim with the coverage check off by one: amount = coverage rejected
create_claim_coverage_off_by_one(claim) ==
    LET id == claim.claim_id
        policy == policies[claim.policy_id]
    IN  IF \/ id \in DOMAIN claims
           \/ claim.policy_id \notin DOMAIN policies
           \/ claim.amount >= policy.coverage_amount
           \/ claim.date < policy.start_date
           \/ claim.date > policy.end_date
        THEN [claims |-> claims, exc |-> "ValueError", msg |-> "rejected"]
        ELSE [claims |-> Put(claims, id, claim), exc |-> "None", msg |-> ""]

\* create_claim that stores every claim as Pending, whatever status it was given
create_claim_status_defaulted(claim) ==
    LET id == claim.claim_id
        policy == policies[claim.policy_id]
    IN  IF \/ id \in DOMAIN claims
           \/ claim.policy_id \notin DOMAIN policies
           \/ claim.amount > policy.coverage_amount
           \/ claim.date < policy.start_date
           \/ claim.date > policy.end_date
        THEN [claims |-> claims, exc |-> "ValueError", msg |-> "rejected"]
        ELSE [claims |-> Put(claims, id, [claim EXCEPT !.status = "Pending"]),
              exc |-> "None", msg |-> ""]

\* create_claim on the current stores: the claims dict it leaves and what it raises
create_claim(claim) ==
    LET id == claim.claim_id
        Raise(msg) == [claims |-> claims, exc |-> "ValueError", msg |-> msg]
    IN  IF id \in DOMAIN claims
        THEN Raise("Claim ID already exists")
        ELSE IF claim.policy_id \notin DOMAIN policies
        THEN Raise("Policy does not exist")
        ELSE IF claim.amount > policies[claim.policy_id].coverage_amount
        THEN Raise("Claim exceeds policy coverage")
        ELSE IF \/ claim.date < policies[claim.policy_id].start_date
                \/ claim.date > policies[claim.policy_id].end_date
        THEN Raise("Claim date outside policy period")
        ELSE [claims |-> Put(claims, id, claim), exc |-> "None", msg |-> ""]

M_create_claim(claim) ==
    /\ UNCHANGED <<db, cvars>>
    /\ LET r == create_claim(claim)
       IN  /\ claims' = r.claims
           /\ last' = Outcome("create_claim", claim.claim_id, r.exc, r.msg)
           /\ UNCHANGED <<policyholders, policies>>

\* self.claims.get(claim_id)
get_claim(id) ==
    IF id \in DOMAIN claims THEN Ref("claims", id) ELSE None

M_get_claim(id) ==
    /\ UNCHANGED <<db, cvars>>
    /\ last' = Returned("get_claim", id)
    /\ UNCHANGED mvars

M_update_claim(id, kwargs) ==
    /\ UNCHANGED <<db, cvars>>
    /\ IF HasKey(kwargs, "claim_id")
       THEN /\ last' = Outcome("update_claim", id, "TypeError",
                               "multiple values for argument")
            /\ UNCHANGED mvars
       ELSE IF id \notin DOMAIN claims
       THEN /\ last' = Outcome("update_claim", id, "ValueError", "Claim not found")
            /\ UNCHANGED mvars
       ELSE LET r == SetAttrs(claims[id], kwargs)
            IN  /\ claims' = [claims EXCEPT ![id] = r.obj]
                /\ last' = Outcome("update_claim", id, r.exc, r.msg)
                /\ UNCHANGED <<policyholders, policies>>

M_delete_claim(id) ==
    /\ UNCHANGED <<db, cvars>>
    /\ IF id \notin DOMAIN claims
       THEN /\ last' = Outcome("delete_claim", id, "ValueError", "Claim not found")
            /\ UNCHANGED mvars
       ELSE /\ claims' = Del(claims, id)
            /\ last' = Returned("delete_claim", id)
            /\ UNCHANGED <<policyholders, policies>>

EmptyDb == [policyholder |-> Empty, policy |-> Empty, claim |-> Empty]

InitManager ==
    /\ policyholders = Empty
    /\ policies = Empty
    /\ claims = Empty
    /\ db = EmptyDb
    /\ sess = Empty
    /\ base = EmptyDb
    /\ last = Returned("init", "")

NextManager ==
    \/ \E ph \in PolicyholderInputs : M_create_policyholder(ph)
    \/ \E id \in PhIds : M_get_policyholder(id)
    \/ \E id \in PolIds : M_get_policy(id)
    \/ \E id \in ClaimIds : M_get_claim(id)
    \/ \E id \in PhIds, kw \in PolicyholderKwargs : M_update_policyholder(id, kw)
    \/ \E id \in PhIds : M_delete_policyholder(id)
    \/ \E p \in PolicyInputs : M_create_policy(p)
    \/ \E id \in PolIds, kw \in PolicyKwargs : M_update_policy(id, kw)
    \/ \E id \in PolIds : M_delete_policy(id)
    \/ \E c \in ClaimInputs : M_create_claim(c)
    \/ \E id \in ClaimIds, kw \in ClaimKwargs : M_update_claim(id, kw)
    \/ \E id \in ClaimIds : M_delete_claim(id)

SpecManager == InitManager /\ [][NextManager]_vars

(***************************************************************************)
(* HTTP API (app.py): request payloads                                     *)
(***************************************************************************)
\* a JSON date string: its format and the calendar day it denotes
DateStr(d) == [fmt |-> "%Y-%m-%d", day |-> d]
BadDateStr == [fmt |-> "%d/%m/%Y", day |-> 1]
RawDates == {DateStr(d) : d \in Dates} \cup {BadDateStr}
RawAmounts == -1..MaxAmount
\* stands for a string of 1001 characters
LongText == "xxxxxxxxxx..."
NameInputs == Names \cup {"", LongText}
ContactInputs == Contacts \cup {"alice.email.com"}
ApiStatusInputs == {"Approved", "Bogus"}

\* len(value) for the strings of the input universe
StrLen(value) ==
    CASE value = "" -> 0
      [] value = LongText -> 1001
      [] value = "alice@email.com" -> 15
      [] value = "alice.email.com" -> 15
      [] value = "Fire Damage" -> 11
      [] value = "Alice" -> 5
      [] value = "Home" -> 4
      [] value \in PhRefs -> 3
      [] value \in PolRefs \cup ClaimIds -> 2

\* a payload without the key k
Without(data, k) == [x \in DOMAIN data \ {k} |-> data[x]]

\* the JSON object of an update request: a dict of at most MaxKwargs keys
DictOf(kw) ==
    [k \in {kw[i].key : i \in 1..Len(kw)} |->
        kw[CHOOSE i \in 1..Len(kw) : kw[i].key = k].value]

PolicyholderPayloads ==
    LET full == {Policyholder(i, n, c) : i \in PhIds, n \in NameInputs, c \in ContactInputs}
    IN  full \cup {Without(d, "name") : d \in full} \cup {Empty}

PolicyPayloads ==
    LET full == {Policy(i, t, a, s, e, ph) :
                    i \in PolIds, t \in PolicyTypes, a \in RawAmounts,
                    s \in RawDates, e \in RawDates, ph \in PhRefs}
    IN  full \cup {Without(d, "coverage_amount") : d \in full} \cup {Empty}

ClaimPayloads ==
    LET full == {Claim(i, d, a, dt, st, p) :
                    i \in ClaimIds, d \in Descriptions, a \in RawAmounts,
                    dt \in RawDates, st \in ApiStatusInputs, p \in PolRefs}
    IN  full \cup {Without(d, "status") : d \in full} \cup {Empty}

PolicyholderUpdates ==
    {DictOf(kw) : kw \in KwargsOver(
        {Kw("name", n) : n \in NameInputs}
        \cup {Kw("contact_info", c) : c \in ContactInputs}
        \cup {Kw("policyholder_id", "ph0"), Kw("email", "x")})}

PolicyUpdates ==
    {DictOf(kw) : kw \in KwargsOver(
        {Kw("policy_type", t) : t \in PolicyTypes \cup {""}}
        \cup {Kw("coverage_amount", a) : a \in RawAmounts}
        \cup {Kw("start_date", d) : d \in RawDates}
        \cup {Kw("end_date", d) : d \in RawDates}
        \cup {Kw("policyholder_id", "ph0"), Kw("premium", 0)})}

ClaimUpdates ==
    {DictOf(kw) : kw \in KwargsOver(
        {Kw("description", t) : t \in Descriptions \cup {""}}
        \cup {Kw("amount", a) : a \in RawAmounts}
        \cup {Kw("date", d) : d \in RawDates}
        \cup {Kw("status", st) : st \in ApiStatusInputs}
        \cup {Kw("policy_id", "p0"), Kw("notes", "x")})}

(***************************************************************************)
(* HTTP API (app.py): validators.  A validator's error is the message of   *)
(* the ValidationError it raises, "" when it returns.                      *)
(***************************************************************************)
NoError == ""

\* the first exception raised by a sequence of checks run in order
FirstError(errs) ==
    IF \E i \in 1..Len(errs) : errs[i] # NoError
    THEN errs[CHOOSE i \in 1..Len(errs) :
                 /\ errs[i] # NoError
                 /\ \A j \in 1..(i - 1) : errs[j] = NoError]
    ELSE NoError

validate_string_field(value, max_length) ==
    IF value = "" THEN "must be a non-empty string"
    ELSE IF StrLen(value) > max_length THEN "must not exceed max_length characters"
    ELSE NoError

\* the pattern local@domain.tld, on the contacts of the input universe
validate_email(email) ==
    IF email \in {"alice@email.com"} THEN NoError ELSE "Invalid email format"

validate_amount(amount) ==
    IF amount < 0 THEN "Amount must be non-negative" ELSE NoError

validate_date(date_str) ==
    IF date_str.fmt = "%Y-%m-%d" THEN NoError ELSE "Invalid date format. Use YYYY-MM-DD"

\* datetime.strptime(date_str, "%Y-%m-%d").date()
ParseDate(date_str) == date_str.day

validate_date_range(start_date, end_date) ==
    IF start_date >= end_date THEN "End date must be after start date" ELSE NoError

valid_statuses == {"Pending", "Approved", "Rejected"}

validate_status(status) ==
    IF status \notin valid_statuses THEN "Status must be one of" ELSE NoError

Missing(data, required_fields) ==
    IF \E f \in required_fields : f \notin DOMAIN data
    THEN "Missing required field"
    ELSE NoError

Policyholder_validate_input(data) ==
    IF Missing(data, {"policyholder_id", "name", "contact_info"}) # NoError
    THEN Missing(data, {"policyholder_id", "name", "contact_info"})
    ELSE FirstError(<<validate_string_field(data.policyholder_id, 50),
                      validate_string_field(data.name, 100),
                      validate_email(data.contact_info)>>)

Policy_required_fields ==
    {"policy_id", "policy_type", "coverage_amount", "start_date", "end_date",
     "policyholder_id"}

Policy_validate_input(data) ==
    IF Missing(data, Policy_required_fields) # NoError
    THEN Missing(data, Policy_required_fields)
    ELSE FirstError(<<validate_string_field(data.policy_id, 50),
                      validate_string_field(data.policy_type, 100),
                      validate_string_field(data.policyholder_id, 50),
                      validate_amount(data.coverage_amount),
                      validate_date(data.start_date),
                      validate_date(data.end_date),
                      validate_date_range(ParseDate(data.start_date),
                                          ParseDate(data.end_date))>>)

\* data.get('status', 'Pending')
StatusOf(data) == IF "status" \in DOMAIN data THEN data.status ELSE "Pending"

Claim_validate_input(data) ==
    IF Missing(data, {"claim_id", "description", "amount", "date", "policy_id"}) # NoError
    THEN Missing(data, {"claim_id", "description", "amount", "date", "policy_id"})
    ELSE FirstError(<<validate_string_field(data.claim_id, 50),
                      validate_string_field(data.description, 1000),
                      validate_string_field(data.policy_id, 50),
                      validate_amount(data.amount),
                      validate_date(data.date),
                      validate_status(StatusOf(data))>>)

\* handle_error: the HTTP status of an exception
handle_error(exc) ==
    CASE exc = "ValidationError" -> 400
      [] exc = "ResourceNotFoundError" -> 404
      [] exc = "DatabaseError" -> 500
      [] OTHER -> 500

(***************************************************************************)
(* HTTP API (app.py): the request handlers, each on a database d: the      *)
(* database it commits and the exception it raises.                        *)
(***************************************************************************)
Ok(d) == [db |-> d, exc |-> "None", msg |-> ""]
Fail(d, exc, msg) == [db |-> d, exc |-> exc, msg |-> msg]

IdOf(data, k) == IF k \in DOMAIN data THEN data[k] ELSE ""

\* the value an update assigns to a column: the payload's, if it has the key
Given(data, k, old) == IF k \in DOMAIN data THEN data[k] ELSE old

Api_create_policyholder(d, data) ==
    IF data = Empty THEN Fail(d, "ValidationError", "No input data provided")
    ELSE IF Policyholder_validate_input(data) # NoError
    THEN Fail(d, "ValidationError", Policyholder_validate_input(data))
    ELSE IF data.policyholder_id \in DOMAIN d.policyholder
    THEN Fail(d, "ValidationError", "Policyholder ID already exists")
    ELSE Ok([d EXCEPT !.policyholder =
                Put(@, data.policyholder_id,
                    Policyholder(data.policyholder_id, data.name, data.contact_info))])

\* str(date): the ISO form, which is the format validate_date parses
Str(date) == [fmt |-> "%Y-%m-%d", day |-> date]

\* jsonify of a row, as the get, create and update handlers build it
Json_policyholder(ph) ==
    [policyholder_id |-> ph.policyholder_id, name |-> ph.name,
     contact_info |-> ph.contact_info]

Json_policy(policy) ==
    [policy_id |-> policy.policy_id, policy_type |-> policy.policy_type,
     coverage_amount |-> policy.coverage_amount,
     start_date |-> Str(policy.start_date), end_date |-> Str(policy.end_date),
     policyholder_id |-> policy.policyholder_id]

Json_claim(claim) ==
    [claim_id |-> claim.claim_id, description |-> claim.description,
     amount |-> claim.amount, date |-> Str(claim.date), status |-> claim.status,
     policy_id |-> claim.policy_id]

\* a 200 response with a body
Body(d, body) == [db |-> d, exc |-> "None", msg |-> "", body |-> body]

Api_get_policyholder(d, id) ==
    IF id \notin DOMAIN d.policyholder
    THEN Fail(d, "ResourceNotFoundError", "Policyholder not found")
    ELSE Body(d, Json_policyholder(d.policyholder[id]))

Api_get_policy(d, id) ==
    IF id \notin DOMAIN d.policy
    THEN Fail(d, "ResourceNotFoundError", "Policy not found")
    ELSE Body(d, Json_policy(d.policy[id]))

Api_get_claim(d, id) ==
    IF id \notin DOMAIN d.claim
    THEN Fail(d, "ResourceNotFoundError", "Claim not found")
    ELSE Body(d, Json_claim(d.claim[id]))

Api_update_policyholder(d, id, data) ==
    IF id \notin DOMAIN d.policyholder
    THEN Fail(d, "ResourceNotFoundError", "Policyholder not found")
    ELSE LET ph == d.policyholder[id]
             err == FirstError(<<
                 IF "name" \in DOMAIN data
                 THEN validate_string_field(data.name, 100) ELSE NoError,
                 IF "contact_info" \in DOMAIN data
                 THEN validate_email(data.contact_info) ELSE NoError>>)
         IN  IF err # NoError
             THEN Fail(d, "ValidationError", err)
             ELSE Ok([d EXCEPT !.policyholder[id] =
                         [ph EXCEPT !.name = Given(data, "name", @),
                                    !.contact_info = Given(data, "contact_info", @)]])

\* session.delete without the cascade: only the policyholder's row goes
Api_delete_policyholder_no_cascade(d, id) ==
    IF id \notin DOMAIN d.policyholder
    THEN Fail(d, "ResourceNotFoundError", "Policyholder not found")
    ELSE Ok([d EXCEPT !.policyholder = Del(@, id)])

\* session.delete with cascade="all, delete-orphan": the policies of the
\* policyholder and the claims of those policies go with it
Api_delete_policyholder(d, id) ==
    IF id \notin DOMAIN d.policyholder
    THEN Fail(d, "ResourceNotFoundError", "Policyholder not found")
    ELSE LET gone == {p \in DOMAIN d.policy : d.policy[p].policyholder_id = id}
         IN  Ok([policyholder |-> Del(d.policyholder, id),
                 policy |-> [p \in DOMAIN d.policy \ gone |-> d.policy[p]],
                 claim |-> [c \in {x \in DOMAIN d.claim : d.claim[x].policy_id \notin gone}
                               |-> d.claim[c]]])

Api_create_policy(d, data) ==
    IF data = Empty THEN Fail(d, "ValidationError", "No input data provided")
    ELSE IF Policy_validate_input(data) # NoError
    THEN Fail(d, "ValidationError", Policy_validate_input(data))
    ELSE IF data.policy_id \in DOMAIN d.policy
    THEN Fail(d, "ValidationError", "Policy ID already exists")
    ELSE IF data.policyholder_id \notin DOMAIN d.policyholder
    THEN Fail(d, "ResourceNotFoundError", "Policyholder not found")
    ELSE Ok([d EXCEPT !.policy =
                Put(@, data.policy_id,
                    Policy(data.policy_id, data.policy_type, data.coverage_amount,
                           ParseDate(data.start_date), ParseDate(data.end_date),
                           data.policyholder_id))])

\* update_policy that also assigns the payload's policyholder_id
Api_update_policy_sets_policyholder(d, id, data) ==
    IF id \notin DOMAIN d.policy
    THEN Fail(d, "ResourceNotFoundError", "Policy not found")
    ELSE Ok([d EXCEPT !.policy[id] =
                [@ EXCEPT !.policyholder_id = Given(data, "policyholder_id", @)]])

Api_update_policy(d, id, data) ==
    IF id \notin DOMAIN d.policy
    THEN Fail(d, "ResourceNotFoundError", "Policy not found")
    ELSE LET policy == d.policy[id]
             start_date == IF "start_date" \in DOMAIN data
                           THEN ParseDate(data.start_date) ELSE policy.start_date
             end_date == IF "end_date" \in DOMAIN data
                         THEN ParseDate(data.end_date) ELSE policy.end_date
             err == FirstError(<<
                 IF "start_date" \in DOMAIN data
                 THEN validate_date(data.start_date) ELSE NoError,
                 IF "end_date" \in DOMAIN data
                 THEN validate_date(data.end_date) ELSE NoError,
                 validate_date_range(start_date, end_date),
                 IF "policy_type" \in DOMAIN data
                 THEN validate_string_field(data.policy_type, 100) ELSE NoError,
                 IF "coverage_amount" \in DOMAIN data
                 THEN validate_amount(data.coverage_amount) ELSE NoError>>)
         IN  IF err # NoError
             THEN Fail(d, "ValidationError", err)
             ELSE Ok([d EXCEPT !.policy[id] =
                         [policy EXCEPT
                             !.policy_type = Given(data, "policy_type", @),
                             !.coverage_amount = Given(data, "coverage_amount", @),
                             !.start_date = start_date,
                             !.end_date = end_date]])

\* session.delete with cascade="all, delete-orphan": the claims of the policy go
\* with it
Api_delete_policy(d, id) ==
    IF id \notin DOMAIN d.policy
    THEN Fail(d, "ResourceNotFoundError", "Policy not found")
    ELSE Ok([d EXCEPT !.policy = Del(@, id),
                      !.claim = [c \in {x \in DOMAIN d.claim : d.claim[x].policy_id # id}
                                    |-> d.claim[c]]])

Api_create_claim(d, data) ==
    IF data = Empty THEN Fail(d, "ValidationError", "No input data provided")
    ELSE IF Claim_validate_input(data) # NoError
    THEN Fail(d, "ValidationError", Claim_validate_input(data))
    ELSE IF data.claim_id \in DOMAIN d.claim
    THEN Fail(d, "ValidationError", "Claim ID already exists")
    ELSE IF data.policy_id \notin DOMAIN d.policy
    THEN Fail(d, "ResourceNotFoundError", "Policy not found")
    ELSE IF data.amount > d.policy[data.policy_id].coverage_amount
    THEN Fail(d, "ValidationError", "Claim amount exceeds policy coverage")
    ELSE Ok([d EXCEPT !.claim =
                Put(@, data.claim_id,
                    Claim(data.claim_id, data.description, data.amount,
                          ParseDate(data.date), StatusOf(data), data.policy_id))])

Api_update_claim(d, id, data) ==
    IF id \notin DOMAIN d.claim
    THEN Fail(d, "ResourceNotFoundError", "Claim not found")
    ELSE LET claim == d.claim[id]
             policy == d.policy[claim.policy_id]
             err == FirstError(<<
                 IF "description" \in DOMAIN data
                 THEN validate_string_field(data.description, 1000) ELSE NoError,
                 IF "amount" \in DOMAIN data
                 THEN validate_amount(data.amount) ELSE NoError,
                 IF "amount" \in DOMAIN data /\ data.amount > policy.coverage_amount
                 THEN "Claim amount exceeds policy coverage" ELSE NoError,
                 IF "date" \in DOMAIN data
                 THEN validate_date(data.date) ELSE NoError,
                 IF "status" \in DOMAIN data
                 THEN validate_status(data.status) ELSE NoError>>)
         IN  IF err # NoError
             THEN Fail(d, "ValidationError", err)
             ELSE Ok([d EXCEPT !.claim[id] =
                         [claim EXCEPT
                             !.description = Given(data, "description", @),
                             !.amount = Given(data, "amount", @),
                             !.date = IF "date" \in DOMAIN data
                                      THEN ParseDate(data.date) ELSE @,
                             !.status = Given(data, "status", @)]])

Api_delete_claim(d, id) ==
    IF id \notin DOMAIN d.claim
    THEN Fail(d, "ResourceNotFoundError", "Claim not found")
    ELSE Ok([d EXCEPT !.claim = Del(@, id)])

\* one request served from start to commit: the handler's result on db
Respond(op, id, r) ==
    /\ db' = r.db
    /\ last' = Outcome(op, id, r.exc, r.msg)

A_create_policyholder(data) ==
    /\ UNCHANGED <<mvars, cvars>>
    /\ Respond("create_policyholder", IdOf(data, "policyholder_id"),
               Api_create_policyholder(db, data))

A_get_policyholder(id) ==
    /\ UNCHANGED <<mvars, cvars>>
    /\ Respond("get_policyholder", id, Api_get_policyholder(db, id))

A_get_policy(id) ==
    /\ UNCHANGED <<mvars, cvars>>
    /\ Respond("get_policy", id, Api_get_policy(db, id))

A_get_claim(id) ==
    /\ UNCHANGED <<mvars, cvars>>
    /\ Respond("get_claim", id, Api_get_claim(db, id))

A_update_policyholder(id, data) ==
    /\ UNCHANGED <<mvars, cvars>>
    /\ Respond("update_policyholder", id, Api_update_policyholder(db, id, data))

A_delete_policyholder(id) ==
    /\ UNCHANGED <<mvars, cvars>>
    /\ Respond("delete_policyholder", id, Api_delete_policyholder(db, id))

A_create_policy(data) ==
    /\ UNCHANGED <<mvars, cvars>>
    /\ Respond("create_policy", IdOf(data, "policy_id"), Api_create_policy(db, data))

A_update_policy(id, data) ==
    /\ UNCHANGED <<mvars, cvars>>
    /\ Respond("update_policy", id, Api_update_policy(db, id, data))

A_delete_policy(id) ==
    /\ UNCHANGED <<mvars, cvars>>
    /\ Respond("delete_policy", id, Api_delete_policy(db, id))

A_create_claim(data) ==
    /\ UNCHANGED <<mvars, cvars>>
    /\ Respond("create_claim", IdOf(data, "claim_id"), Api_create_claim(db, data))

A_update_claim(id, data) ==
    /\ UNCHANGED <<mvars, cvars>>
    /\ Respond("update_claim", id, Api_update_claim(db, id, data))

A_delete_claim(id) ==
    /\ UNCHANGED <<mvars, cvars>>
    /\ Respond("delete_claim", id, Api_delete_claim(db, id))

InitApi ==
    /\ policyholders = Empty
    /\ policies = Empty
    /\ claims = Empty
    /\ db = EmptyDb
    /\ sess = Empty
    /\ base = EmptyDb
    /\ last = Returned("init", "")

NextApi ==
    \/ \E data \in PolicyholderPayloads : A_create_policyholder(data)
    \/ \E id \in PhIds : A_get_policyholder(id)
    \/ \E id \in PolIds : A_get_policy(id)
    \/ \E id \in ClaimIds : A_get_claim(id)
    \/ \E id \in PhIds, data \in PolicyholderUpdates : A_update_policyholder(id, data)
    \/ \E id \in PhIds : A_delete_policyholder(id)
    \/ \E data \in PolicyPayloads : A_create_policy(data)
    \/ \E id \in PolIds, data \in PolicyUpdates : A_update_policy(id, data)
    \/ \E id \in PolIds : A_delete_policy(id)
    \/ \E data \in ClaimPayloads : A_create_claim(data)
    \/ \E id \in ClaimIds, data \in ClaimUpdates : A_update_claim(id, data)
    \/ \E id \in ClaimIds : A_delete_claim(id)

SpecApi == InitApi /\ [][NextApi]_vars

(***************************************************************************)
(* HTTP API under app.run(threaded=True): two requests served by two        *)
(* threads, each with its own session on the same database.  A handler     *)
(* takes one step per query (each sees what is committed at that moment)   *)
(* and one step for safe_commit, which writes the session's pending        *)
(* INSERT, or its UPDATE of the columns the handler changed.               *)
(***************************************************************************)
Workers == {"t1", "t2"}

Request(op, id, data) == [op |-> op, id |-> id, data |-> data]

ConcClaimPayloads ==
    {Without(Claim(i, d, a, DateStr(1), "Pending", p), "status") :
        i \in ClaimIds, d \in Descriptions, a \in RawAmounts, p \in PolIds}

ConcPolicyUpdates ==
    {DictOf(kw) : kw \in KwargsOver(
        {Kw("coverage_amount", a) : a \in Amounts}
        \cup {Kw("start_date", DateStr(d)) : d \in Dates}
        \cup {Kw("end_date", DateStr(d)) : d \in Dates})}

ConcClaimUpdates ==
    {DictOf(kw) : kw \in KwargsOver(
        {Kw("description", t) : t \in Descriptions \cup {""}}
        \cup {Kw("amount", a) : a \in Amounts}
        \cup {Kw("status", st) : st \in ApiStatusInputs})}

ConcRequests ==
    {Request("create_claim", IdOf(d, "claim_id"), d) : d \in ConcClaimPayloads}
    \cup {Request("update_claim", i, d) : i \in ClaimIds, d \in ConcClaimUpdates}
    \cup {Request("update_policy", i, d) : i \in PolIds, d \in ConcPolicyUpdates}

\* the handler of a request, run alone from start to commit on database d
Run(q, d) ==
    CASE q.op = "create_policyholder" -> Api_create_policyholder(d, q.data)
      [] q.op = "update_policyholder" -> Api_update_policyholder(d, q.id, q.data)
      [] q.op = "delete_policyholder" -> Api_delete_policyholder(d, q.id)
      [] q.op = "create_policy" -> Api_create_policy(d, q.data)
      [] q.op = "update_policy" -> Api_update_policy(d, q.id, q.data)
      [] q.op = "delete_policy" -> Api_delete_policy(d, q.id)
      [] q.op = "create_claim" -> Api_create_claim(d, q.data)
      [] q.op = "update_claim" -> Api_update_claim(d, q.id, q.data)
      [] q.op = "delete_claim" -> Api_delete_claim(d, q.id)

\* databases that requests served one at a time leave: a policyholder, then a
\* create_policy request, then a create_claim request
ConcInitDbs ==
    LET d1 == Api_create_policyholder(
                  EmptyDb, Policyholder("ph1", "Alice", "alice@email.com")).db
        d2 == {Api_create_policy(d1, p).db : p \in PolicyPayloads}
    IN  d2 \cup {Api_create_claim(d, c).db : d \in d2, c \in ConcClaimPayloads}

Session(q) ==
    [req |-> q, pc |-> "start", loaded |-> Empty, write |-> Empty,
     exc |-> "None", msg |-> ""]

\* the response: the handler returns, or raises after the session's rollback
Finish(t, exc, msg) ==
    sess' = [sess EXCEPT ![t] = [@ EXCEPT !.pc = "done", !.exc = exc, !.msg = msg]]

\* the columns of a loaded row that the handler set to another value: the
\* SET list of the UPDATE the session flushes
Changed(old, new) == [k \in {x \in DOMAIN old : old[x] # new[x]} |-> new[k]]

\* UPDATE table SET write WHERE id = ...
Merge(row, write) == [k \in DOMAIN row |-> IF k \in DOMAIN write THEN write[k] ELSE row[k]]

\* create_claim up to Claim.query.get(claim_id)
C_create_claim_get_claim(t) ==
    /\ sess[t].pc = "start"
    /\ sess[t].req.op = "create_claim"
    /\ LET data == sess[t].req.data
       IN  IF data = Empty
           THEN Finish(t, "ValidationError", "No input data provided")
           ELSE IF Claim_validate_input(data) # NoError
           THEN Finish(t, "ValidationError", Claim_validate_input(data))
           ELSE IF data.claim_id \in DOMAIN db.claim
           THEN Finish(t, "ValidationError", "Claim ID already exists")
           ELSE sess' = [sess EXCEPT ![t].pc = "get_policy"]
    /\ UNCHANGED <<mvars, db, base, last>>

\* create_claim from Policy.query.get(policy_id) to session.add(claim)
C_create_claim_get_policy(t) ==
    /\ sess[t].pc = "get_policy"
    /\ sess[t].req.op = "create_claim"
    /\ LET data == sess[t].req.data
       IN  IF data.policy_id \notin DOMAIN db.policy
           THEN Finish(t, "ResourceNotFoundError", "Policy not found")
           ELSE IF data.amount > db.policy[data.policy_id].coverage_amount
           THEN Finish(t, "ValidationError", "Claim amount exceeds policy coverage")
           ELSE sess' = [sess EXCEPT ![t] =
                    [@ EXCEPT !.pc = "commit",
                              !.write = Claim(data.claim_id, data.description, data.amount,
                                              ParseDate(data.date), StatusOf(data),
                                              data.policy_id)]]
    /\ UNCHANGED <<mvars, db, base, last>>

\* safe_commit of create_claim: the INSERT fails on a primary key that exists
\* by now or a policy that is gone, and then the session is rolled back
C_create_claim_commit(t) ==
    /\ sess[t].pc = "commit"
    /\ sess[t].req.op = "create_claim"
    /\ LET claim == sess[t].write
       IN  IF claim.claim_id \in DOMAIN db.claim \/ claim.policy_id \notin DOMAIN db.policy
           THEN /\ Finish(t, "DatabaseError", "Database error")
                /\ UNCHANGED db
           ELSE /\ db' = [db EXCEPT !.claim = Put(@, claim.claim_id, claim)]
                /\ Finish(t, "None", "")
    /\ UNCHANGED <<mvars, base, last>>

\* update_policy from Policy.query.get(policy_id) to the last assignment
C_update_policy_get(t) ==
    /\ sess[t].pc = "start"
    /\ sess[t].req.op = "update_policy"
    /\ LET id == sess[t].req.id
           r == Api_update_policy(db, id, sess[t].req.data)
       IN  IF r.exc # "None"
           THEN Finish(t, r.exc, r.msg)
           ELSE sess' = [sess EXCEPT ![t] =
                    [@ EXCEPT !.pc = "commit",
                              !.write = Changed(db.policy[id], r.db.policy[id])]]
    /\ UNCHANGED <<mvars, db, base, last>>

\* safe_commit of an update: UPDATE ... SET the changed columns; no statement
\* when nothing changed; an UPDATE that matches no row raises
C_update_policy_commit(t) ==
    /\ sess[t].pc = "commit"
    /\ sess[t].req.op = "update_policy"
    /\ LET id == sess[t].req.id
       IN  IF DOMAIN sess[t].write = {}
           THEN Finish(t, "None", "") /\ UNCHANGED db
           ELSE IF id \notin DOMAIN db.policy
           THEN Finish(t, "DatabaseError", "Database error") /\ UNCHANGED db
           ELSE /\ db' = [db EXCEPT !.policy[id] = Merge(@, sess[t].write)]
                /\ Finish(t, "None", "")
    /\ UNCHANGED <<mvars, base, last>>

\* update_claim from Claim.query.get(claim_id) up to Policy.query.get, or to
\* the last assignment when the payload has no amount
C_update_claim_get(t) ==
    /\ sess[t].pc = "start"
    /\ sess[t].req.op = "update_claim"
    /\ LET id == sess[t].req.id
           data == sess[t].req.data
           r == Api_update_claim(db, id, data)
           early == FirstError(<<
               IF "description" \in DOMAIN data
               THEN validate_string_field(data.description, 1000) ELSE NoError,
               IF "amount" \in DOMAIN data
               THEN validate_amount(data.amount) ELSE NoError>>)
       IN  IF id \notin DOMAIN db.claim
           THEN Finish(t, r.exc, r.msg)
           ELSE IF "amount" \in DOMAIN data
           THEN IF early # NoError
                THEN Finish(t, "ValidationError", early)
                ELSE sess' = [sess EXCEPT ![t] =
                         [@ EXCEPT !.pc = "get_policy", !.loaded = db.claim[id]]]
           ELSE IF r.exc # "None"
           THEN Finish(t, r.exc, r.msg)
           ELSE sess' = [sess EXCEPT ![t] =
                    [@ EXCEPT !.pc = "commit",
                              !.write = Changed(db.claim[id], r.db.claim[id])]]
    /\ UNCHANGED <<mvars, db, base, last>>

\* update_claim from Policy.query.get(claim.policy_id) to the last assignment,
\* on the claim as this session loaded it
C_update_claim_get_policy(t) ==
    /\ sess[t].pc = "get_policy"
    /\ sess[t].req.op = "update_claim"
    /\ LET id == sess[t].req.id
           claim == sess[t].loaded
           r == Api_update_claim([db EXCEPT !.claim = Put(@, id, claim)], id,
                                 sess[t].req.data)
       IN  IF claim.policy_id \notin DOMAIN db.policy
           THEN Finish(t, "AttributeError", "'NoneType' object has no attribute")
           ELSE IF r.exc # "None"
           THEN Finish(t, r.exc, r.msg)
           ELSE sess' = [sess EXCEPT ![t] =
                    [@ EXCEPT !.pc = "commit",
                              !.write = Changed(claim, r.db.claim[id])]]
    /\ UNCHANGED <<mvars, db, base, last>>

C_update_claim_commit(t) ==
    /\ sess[t].pc = "commit"
    /\ sess[t].req.op = "update_claim"
    /\ LET id == sess[t].req.id
       IN  IF DOMAIN sess[t].write = {}
           THEN Finish(t, "None", "") /\ UNCHANGED db
           ELSE IF id \notin DOMAIN db.claim
           THEN Finish(t, "DatabaseError", "Database error") /\ UNCHANGED db
           ELSE /\ db' = [db EXCEPT !.claim[id] = Merge(@, sess[t].write)]
                /\ Finish(t, "None", "")
    /\ UNCHANGED <<mvars, base, last>>

InitConc ==
    /\ policyholders = Empty
    /\ policies = Empty
    /\ claims = Empty
    /\ db \in ConcInitDbs
    /\ base = db
    /\ sess \in [Workers -> {Session(q) : q \in ConcRequests}]
    /\ last = Returned("init", "")

NextConc ==
    \/ \E t \in Workers : C_create_claim_get_claim(t)
    \/ \E t \in Workers : C_create_claim_get_policy(t)
    \/ \E t \in Workers : C_create_claim_commit(t)
    \/ \E t \in Workers : C_update_policy_get(t)
    \/ \E t \in Workers : C_update_policy_commit(t)
    \/ \E t \in Workers : C_update_claim_get(t)
    \/ \E t \in Workers : C_update_claim_get_policy(t)
    \/ \E t \in Workers : C_update_claim_commit(t)

SpecConc == InitConc /\ [][NextConc]_vars

(***************************************************************************)
(* HTTP API with the commit as a step of its own: a request's handler      *)
(* stages its mutation in the session, and safe_commit then either commits *)
(* it or, when the store raises, rolls the session back and raises         *)
(* DatabaseError.  Requests are served one at a time.  base is the         *)
(* database as committed when the request began.                           *)
(***************************************************************************)
StorePolicyholderUpdates ==
    {DictOf(kw) : kw \in KwargsOver(
        {Kw("name", "Alice"), Kw("contact_info", "alice@email.com"),
         Kw("policyholder_id", "ph0"), Kw("email", "x")})}

StorePolicyPayloads ==
    {Policy(i, t, a, DateStr(se[1]), DateStr(se[2]), ph) :
        i \in PolIds, t \in PolicyTypes, a \in Amounts,
        se \in {<<1, 2>>, <<2, 3>>}, ph \in PhRefs}

StorePolicyUpdates ==
    {DictOf(kw) : kw \in KwargsOver(
        {Kw("coverage_amount", a) : a \in Amounts}
        \cup {Kw("start_date", DateStr(d)) : d \in {1, 2}}
        \cup {Kw("end_date", DateStr(d)) : d \in {2, 3}}
        \cup {Kw("policy_type", ""), Kw("policyholder_id", "ph0"),
              Kw("policy_id", "p0"), Kw("premium", 0)})}

StoreClaimPayloads ==
    {Without(Claim(i, d, a, DateStr(1), "Pending", p), "status") :
        i \in ClaimIds, d \in Descriptions, a \in Amounts, p \in PolRefs}
    \cup {Claim(i, d, a, DateStr(1), "Approved", p) :
             i \in ClaimIds, d \in Descriptions, a \in Amounts, p \in PolRefs}

StoreClaimUpdates ==
    {DictOf(kw) : kw \in KwargsOver(
        {Kw("amount", a) : a \in Amounts}
        \cup {Kw("status", st) : st \in ApiStatusInputs}
        \cup {Kw("date", DateStr(2)), Kw("policy_id", "p0"),
              Kw("claim_id", "c0"), Kw("notes", "x")})}

StoreRequests ==
    {Request("create_policyholder", IdOf(d, "policyholder_id"), d) :
        d \in {Policyholder("ph1", "Alice", "alice@email.com"),
               Without(Policyholder("ph1", "Alice", "alice@email.com"), "name")}}
    \cup {Request("update_policyholder", i, d) : i \in PhIds, d \in StorePolicyholderUpdates}
    \cup {Request("delete_policyholder", i, Empty) : i \in PhIds}
    \cup {Request("create_policy", IdOf(d, "policy_id"), d) : d \in StorePolicyPayloads}
    \cup {Request("update_policy", i, d) : i \in PolIds, d \in StorePolicyUpdates}
    \cup {Request("delete_policy", i, Empty) : i \in PolIds}
    \cup {Request("create_claim", IdOf(d, "claim_id"), d) : d \in StoreClaimPayloads}
    \cup {Request("update_claim", i, d) : i \in ClaimIds, d \in StoreClaimUpdates}
    \cup {Request("delete_claim", i, Empty) : i \in ClaimIds}

\* the session between requests, after request q: nothing pending
Idle(q) == [pc |-> "idle", req |-> q, pending |-> {}]

\* db.session.rollback() that leaves the pending changes in the session
rollback_skipped(s) == s

\* db.session.rollback(): the session's pending changes are discarded
rollback(s) == [s EXCEPT !.pending = {}]

\* what the session's queries see: the committed tables, under the changes
\* pending in the session
View == IF sess.pending = {} THEN db ELSE CHOOSE d \in sess.pending : TRUE

\* a handler up to its safe_commit() call on request q: it raises (an update
\* handler then rolls back), or its mutation is pending in the session
Stage(q) ==
    /\ sess.pc = "idle"
    /\ base' = db
    /\ LET r == Run(q, View)
       IN  IF r.exc # "None"
           THEN /\ sess' = IF q.op \in {"update_policyholder", "update_policy", "update_claim"}
                           THEN rollback([sess EXCEPT !.req = q])
                           ELSE [sess EXCEPT !.req = q]
                /\ last' = Outcome(q.op, q.id, r.exc, r.msg)
           ELSE /\ sess' = [pc |-> "commit", req |-> q, pending |-> {r.db}]
                /\ last' = last
    /\ UNCHANGED <<mvars, db>>

S_create_policyholder(q) == q.op = "create_policyholder" /\ Stage(q)

S_update_policyholder(q) == q.op = "update_policyholder" /\ Stage(q)

S_delete_policyholder(q) == q.op = "delete_policyholder" /\ Stage(q)

S_create_policy(q) == q.op = "create_policy" /\ Stage(q)

S_update_policy(q) == q.op = "update_policy" /\ Stage(q)

S_delete_policy(q) == q.op = "delete_policy" /\ Stage(q)

S_create_claim(q) == q.op = "create_claim" /\ Stage(q)

S_update_claim(q) == q.op = "update_claim" /\ Stage(q)

S_delete_claim(q) == q.op = "delete_claim" /\ Stage(q)

\* safe_commit: db.session.commit() succeeds and the handler returns
S_safe_commit ==
    /\ sess.pc = "commit"
    /\ db' = View
    /\ sess' = Idle(sess.req)
    /\ last' = Returned(sess.req.op, sess.req.id)
    /\ UNCHANGED <<mvars, base>>

\* safe_commit: db.session.commit() raises; rollback, then DatabaseError
S_safe_commit_raises ==
    /\ sess.pc = "commit"
    /\ sess' = [rollback(sess) EXCEPT !.pc = "idle"]
    /\ last' = Outcome(sess.req.op, sess.req.id, "DatabaseError", "Database error")
    /\ UNCHANGED <<mvars, db, base>>

InitStore ==
    /\ policyholders = Empty
    /\ policies = Empty
    /\ claims = Empty
    /\ db = EmptyDb
    /\ sess = Idle(Request("init", "", Empty))
    /\ base = EmptyDb
    /\ last = Returned("init", "")

NextStore ==
    \/ \E q \in StoreRequests : S_create_policyholder(q)
    \/ \E q \in StoreRequests : S_update_policyholder(q)
    \/ \E q \in StoreRequests : S_delete_policyholder(q)
    \/ \E q \in StoreRequests : S_create_policy(q)
    \/ \E q \in StoreRequests : S_update_policy(q)
    \/ \E q \in StoreRequests : S_delete_policy(q)
    \/ \E q \in StoreRequests : S_create_claim(q)
    \/ \E q \in StoreRequests : S_update_claim(q)
    \/ \E q \in StoreRequests : S_delete_claim(q)
    \/ S_safe_commit
    \/ S_safe_commit_raises

SpecStore == InitStore /\ [][NextStore]_vars

(***************************************************************************)
(* Properties                                                              *)
(***************************************************************************)

\* C1: in the HTTP API every stored claim's amount is at most the
\* coverage_amount of the policy its policy_id refers to.
C1_ClaimWithinCoverage ==
    \A c \in DOMAIN db.claim :
        db.claim[c].policy_id \in DOMAIN db.policy
            => db.claim[c].amount <= db.policy[db.claim[c].policy_id].coverage_amount

\* C2: in ClaimsManager every stored policy's policyholder_id is the id of a
\* policyholder currently in the store.
C2_PolicyholderExists ==
    \A p \in DOMAIN policies : policies[p].policyholder_id \in DOMAIN policyholders

\* C3: in ClaimsManager every stored claim's policy_id is the id of a policy
\* currently in the store.
C3_PolicyExists ==
    \A c \in DOMAIN claims : claims[c].policy_id \in DOMAIN policies

HasPolicies(pols, id) == \E p \in DOMAIN pols : pols[p].policyholder_id = id
HasClaims(cls, id) == \E c \in DOMAIN cls : cls[c].policy_id = id

\* a delete of a stored record with dependents raises and removes nothing; with
\* none it returns and removes exactly that record
C4_Delete(store, store2, id, dependents) ==
    id \in DOMAIN store =>
        IF dependents
        THEN last'.exc # "None" /\ store2 = store
        ELSE last'.exc = "None" /\ store2 = Del(store, id)

\* C4: deleting a policyholder that has a policy, or a policy that has a claim,
\* fails and removes nothing, and succeeds removing exactly that record once it
\* has no dependents: in ClaimsManager and in the HTTP API.
C4_DeleteProtected ==
    [][/\ last'.op = "delete_policyholder" =>
            /\ C4_Delete(policyholders, policyholders', last'.id,
                         HasPolicies(policies, last'.id))
            /\ C4_Delete(db.policyholder, db'.policyholder, last'.id,
                         HasPolicies(db.policy, last'.id))
            /\ policies' = policies /\ claims' = claims
            /\ db'.policy = db.policy /\ db'.claim = db.claim
       /\ last'.op = "delete_policy" =>
            /\ C4_Delete(policies, policies', last'.id, HasClaims(claims, last'.id))
            /\ C4_Delete(db.policy, db'.policy, last'.id, HasClaims(db.claim, last'.id))
            /\ policyholders' = policyholders /\ claims' = claims
            /\ db'.policyholder = db.policyholder /\ db'.claim = db.claim]_vars

\* C5: a ClaimsManager call that raises leaves the three stores, and every field
\* of every stored record, exactly as they were before the call.
C5_AllOrNothing ==
    [][last'.exc # "None" => mvars' = mvars]_vars

C6_Duplicate(op, ids) ==
    (last'.op = op /\ last'.id \in ids)
        => /\ last'.exc # "None"
           /\ last'.msg \in {"Policyholder ID already exists", "Policy ID already exists",
                              "Claim ID already exists"}
           /\ mvars' = mvars
           /\ db' = db

\* C6: a create whose id is already in the store of its entity type fails with
\* the duplicate-id error, whatever the rest of the payload, and changes nothing.
C6_DuplicateCreate ==
    [][/\ C6_Duplicate("create_policyholder", DOMAIN policyholders \cup DOMAIN db.policyholder)
       /\ C6_Duplicate("create_policy", DOMAIN policies \cup DOMAIN db.policy)
       /\ C6_Duplicate("create_claim", DOMAIN claims \cup DOMAIN db.claim)]_vars

\* The case of C7: create_claim is called with an unused claim id and the id of
\* a stored policy.
C7_Applies(c) ==
    /\ c.claim_id \notin DOMAIN claims
    /\ c.policy_id \in DOMAIN policies

C7_Stored(c) ==
    /\ create_claim(c).exc = "None"
    /\ create_claim(c).claims = Put(claims, c.claim_id, c)

C7_Rejected(c) ==
    /\ create_claim(c).exc = "ValueError"
    /\ create_claim(c).claims = claims

\* C7 as stated: with an unused claim id and an existing policy, create_claim
\* stores the claim when amount <= coverage_amount, and raises storing nothing
\* when amount > coverage_amount.
C7_Original ==
    \A c \in ClaimInputs :
        C7_Applies(c) =>
            IF c.amount <= policies[c.policy_id].coverage_amount
            THEN C7_Stored(c)
            ELSE C7_Rejected(c)

\* C7 amended: with an unused claim id and an existing policy, create_claim
\* stores the claim when amount <= coverage_amount and the claim's date lies in
\* [start_date, end_date] of the policy, and raises ValueError storing nothing
\* otherwise (amount > coverage_amount, or a date outside the period).
C7_CreateClaim ==
    \A c \in ClaimInputs :
        C7_Applies(c) =>
            IF /\ c.amount <= policies[c.policy_id].coverage_amount
               /\ policies[c.policy_id].start_date <= c.date
               /\ c.date <= policies[c.policy_id].end_date
            THEN C7_Stored(c)
            ELSE C7_Rejected(c)

\* create_claim has just stored a claim whose amount equals the coverage of its
\* policy, and a larger amount is possible in the model.
C7_Witness ==
    /\ last.op = "create_claim"
    /\ last.exc = "None"
    /\ last.id \in DOMAIN claims
    /\ claims[last.id].policy_id \in DOMAIN policies
    /\ claims[last.id].amount = policies[claims[last.id].policy_id].coverage_amount
    /\ claims[last.id].amount < MaxAmount

\* C8: a policy that create_policy has just stored has start_date < end_date
\* (creation with start_date >= end_date, equal dates included, fails), in
\* ClaimsManager and in the HTTP API.
C8_CreatedDatesOrdered ==
    (last.op = "create_policy" /\ last.exc = "None") =>
        /\ last.id \in DOMAIN policies
              => policies[last.id].start_date < policies[last.id].end_date
        /\ last.id \in DOMAIN db.policy
              => db.policy[last.id].start_date < db.policy[last.id].end_date

C9_KeepsOrder(store, store2) ==
    \A p \in DOMAIN store \cap DOMAIN store2 :
        store[p].start_date < store[p].end_date
            => store2[p].start_date < store2[p].end_date

\* C9: an update_policy call never turns a stored policy with
\* start_date < end_date into one with start_date >= end_date, in ClaimsManager
\* and in the HTTP API.
C9_UpdateKeepsDatesOrdered ==
    [][last'.op = "update_policy"
          => C9_KeepsOrder(policies, policies') /\ C9_KeepsOrder(db.policy, db'.policy)]_vars

AllDone == sess # Empty /\ \A t \in Workers : sess[t].pc = "done"

\* the databases that serving the two requests one after the other leaves
SerialOutcomes ==
    {Run(sess["t2"].req, Run(sess["t1"].req, base).db).db,
     Run(sess["t1"].req, Run(sess["t2"].req, base).db).db}

\* worker t served a create_claim, or an update_claim of the amount, and
\* worker u an update_policy of the coverage_amount, and both returned
C10_ClaimBesideCoverage(t, u) ==
    /\ \/ sess[t].req.op = "create_claim"
       \/ sess[t].req.op = "update_claim" /\ "amount" \in DOMAIN sess[t].req.data
    /\ sess[u].req.op = "update_policy"
    /\ "coverage_amount" \in DOMAIN sess[u].req.data
    /\ sess[t].exc = "None"
    /\ sess[u].exc = "None"

\* C10: when two concurrent requests have both been answered, the committed
\* database is one that serving them one after the other, in some order, leaves.
C10_Serializable == AllDone => db \in SerialOutcomes

\* C10, in particular: a claim request served beside a coverage update never
\* leaves its claim committed above the policy's coverage_amount.
C10_NoClaimAboveCoverage ==
    AllDone =>
        \A t, u \in Workers :
            C10_ClaimBesideCoverage(t, u) =>
                LET c == sess[t].req.id
                IN  c \in DOMAIN db.claim =>
                        db.claim[c].amount <= db.policy[db.claim[c].policy_id].coverage_amount

\* C10: concurrent HTTP API requests are atomic with respect to each other.
C10_Atomic == C10_Serializable /\ C10_NoClaimAboveCoverage

\* the keys an update of each entity may carry
UpdatableFields ==
    [policyholder |-> {"name", "contact_info"},
     policy |-> {"policy_type", "coverage_amount", "start_date", "end_date"},
     claim |-> {"description", "amount", "date", "status"}]

C11_Rejects(r) == r.exc = "ValidationError" /\ r.db = db

\* C11: an HTTP API update of a stored policyholder, policy or claim whose
\* payload has a key that is not an updatable field of that entity fails with a
\* validation error and changes no field of the record.
C11_UnknownFieldRejected ==
    /\ \A id \in DOMAIN db.policyholder, data \in PolicyholderUpdates :
           ~(DOMAIN data \subseteq UpdatableFields.policyholder)
               => C11_Rejects(Api_update_policyholder(db, id, data))
    /\ \A id \in DOMAIN db.policy, data \in PolicyUpdates :
           ~(DOMAIN data \subseteq UpdatableFields.policy)
               => C11_Rejects(Api_update_policy(db, id, data))
    /\ \A id \in DOMAIN db.claim, data \in ClaimUpdates :
           ~(DOMAIN data \subseteq UpdatableFields.claim)
               => C11_Rejects(Api_update_claim(db, id, data))

\* C12: the status of every stored claim is one of Pending, Approved, Rejected,
\* in ClaimsManager and in the HTTP API.
C12_StatusValid ==
    /\ \A c \in DOMAIN claims : claims[c].status \in valid_statuses
    /\ \A c \in DOMAIN db.claim : db.claim[c].status \in valid_statuses

C13_Absent(op, id) ==
    CASE op \in {"get_policyholder", "update_policyholder", "delete_policyholder"}
           -> id \notin DOMAIN policyholders \cup DOMAIN db.policyholder
      [] op \in {"get_policy", "update_policy", "delete_policy"}
           -> id \notin DOMAIN policies \cup DOMAIN db.policy
      [] op \in {"get_claim", "update_claim", "delete_claim"}
           -> id \notin DOMAIN claims \cup DOMAIN db.claim
      [] OTHER -> FALSE

\* C13: a get, update or delete of an id that is not in the store of its entity
\* type raises (it does not return normally) and leaves the stores unchanged,
\* in ClaimsManager and in the HTTP API.
C13_AbsentIdNotFound ==
    [][C13_Absent(last'.op, last'.id)
          => last'.exc # "None" /\ mvars' = mvars /\ db' = db]_vars

UpdateOps == {"update_policyholder", "update_policy", "update_claim"}

\* the record a get_* call returned keeps its field values over the step
C15_Unchanged(r) ==
    r # None => Deref(r, policyholders', policies', claims')
                    = Deref(r, policyholders, policies, claims)

\* C15: the record a ClaimsManager get_policyholder/get_policy/get_claim call
\* returned is a snapshot: a later update_* call that modifies the stored
\* record does not change its field values.
C15_GetReturnsSnapshot ==
    [][last'.op \in UpdateOps =>
          /\ \A id \in PhIds : C15_Unchanged(get_policyholder(id))
          /\ \A id \in PolIds : C15_Unchanged(get_policy(id))
          /\ \A id \in ClaimIds : C15_Unchanged(get_claim(id))]_vars

\* the record stored under id stays as it is over a step that is not an update
\* or a delete of that id
C16_Kept(ops, dict, dict2) ==
    \A id \in DOMAIN dict :
        ~(last'.op \in ops /\ last'.id = id) => id \in DOMAIN dict2 /\ dict2[id] = dict[id]

\* C16: in ClaimsManager, after a successful create of record X, get by X's id
\* returns a record whose every field equals X's, and this stays so until an
\* update or delete of that id.
C16_RoundTrip ==
    [][/\ last' = Returned("create_policyholder", last'.id) =>
            \A ph \in PolicyholderInputs :
            (/\ ph.policyholder_id = last'.id
             /\ policyholders' = create_policyholder(ph).policyholders)
                => /\ get_policyholder(ph.policyholder_id)' # None
                   /\ Deref(get_policyholder(ph.policyholder_id)',
                            policyholders', policies', claims') = ph
       /\ last' = Returned("create_policy", last'.id) =>
            \A p \in PolicyInputs :
            (/\ p.policy_id = last'.id
             /\ policies' = create_policy(p).policies)
                => /\ get_policy(p.policy_id)' # None
                   /\ Deref(get_policy(p.policy_id)',
                            policyholders', policies', claims') = p
       /\ last' = Returned("create_claim", last'.id) =>
            \A c \in ClaimInputs :
            (/\ c.claim_id = last'.id
             /\ claims' = create_claim(c).claims)
                => /\ get_claim(c.claim_id)' # None
                   /\ Deref(get_claim(c.claim_id)',
                            policyholders', policies', claims') = c
       /\ C16_Kept({"update_policyholder", "delete_policyholder"},
                   policyholders, policyholders')
       /\ C16_Kept({"update_policy", "delete_policy"}, policies, policies')
       /\ C16_Kept({"update_claim", "delete_claim"}, claims, claims')]_vars

\* a claim was created with a status other than the default and is read back
C16_Witness ==
    /\ last.op = "get_claim"
    /\ last.id \in DOMAIN claims
    /\ claims[last.id].status # "Pending"
    /\ get_claim(last.id) = Ref("claims", last.id)

\* C18: in ClaimsManager every stored claim's date lies within the validity
\* period of its policy: policy.start_date <= claim.date <= policy.end_date.
C18_ClaimDateWithinPeriod ==
    \A c \in DOMAIN claims :
        claims[c].policy_id \in DOMAIN policies =>
            /\ policies[claims[c].policy_id].start_date <= claims[c].date
            /\ claims[c].date <= policies[claims[c].policy_id].end_date

C19_OwnIds(phs, pols, cls) ==
    /\ \A k \in DOMAIN phs : phs[k].policyholder_id = k
    /\ \A k \in DOMAIN pols : pols[k].policy_id = k
    /\ \A k \in DOMAIN cls : cls[k].claim_id = k

\* C19: in ClaimsManager every record is stored under its own id (the record at
\* key k has policyholder_id, policy_id or claim_id equal to k), and an
\* update_* call never changes which ids are present in a store.
C19_StoredUnderOwnId ==
    [][/\ C19_OwnIds(policyholders', policies', claims')
       /\ last'.op \in UpdateOps =>
              /\ DOMAIN policyholders' = DOMAIN policyholders
              /\ DOMAIN policies' = DOMAIN policies
              /\ DOMAIN claims' = DOMAIN claims]_vars

\* update_policyholder was called on a stored policyholder with a
\* policyholder_id keyword, and the record is still stored under its id
C19_Witness ==
    /\ last.op = "update_policyholder"
    /\ last.exc = "TypeError"
    /\ last.id \in DOMAIN policyholders
    /\ policyholders[last.id].policyholder_id = last.id

\* a request has been answered and the session is between requests
Answered == sess.pc = "idle" /\ sess.req.op # "init"

\* C14: when the commit of an HTTP create, update or delete request fails, the
\* request is answered with DatabaseError (status 500) and the committed state
\* is the state before the request; and a request that succeeds commits its own
\* mutation of the state committed before it, so nothing of a failed mutation.
C14_CommitFailureRolledBack ==
    Answered =>
        /\ last.exc = "DatabaseError" =>
               /\ handle_error(last.exc) = 500
               /\ Run(sess.req, base).exc = "None"
               /\ db = base
        /\ last.exc = "None" => db = Run(sess.req, base).db
        /\ last.exc \notin {"None", "DatabaseError"} =>
               /\ Run(sess.req, base).exc = last.exc
               /\ db = base

\* the commit of a create_claim that would have stored a claim failed
C14_Witness ==
    /\ Answered
    /\ sess.req.op = "create_claim"
    /\ last.exc = "DatabaseError"
    /\ sess.req.id \in DOMAIN Run(sess.req, base).db.claim
    /\ db = base

\* every stored policy's policyholder and every stored claim's policy is stored
NoDangling(d) ==
    /\ \A p \in DOMAIN d.policy : d.policy[p].policyholder_id \in DOMAIN d.policyholder
    /\ \A c \in DOMAIN d.claim : d.claim[c].policy_id \in DOMAIN d.policy

\* the rows of a table other than those in the set gone
Rest(table, gone) == [k \in DOMAIN table \ gone |-> table[k]]

\* the policies that policyholder ph owns in d, and the claims that the
\* policies in the set pols own
PoliciesOf(d, ph) == {p \in DOMAIN d.policy : d.policy[p].policyholder_id = ph}
ClaimsOf(d, pols) == {c \in DOMAIN d.claim : d.claim[c].policy_id \in pols}

\* C17: in the HTTP API a successful delete_policyholder removes the
\* policyholder, its policies and the claims of those policies, a successful
\* delete_policy removes the policy and its claims, every other record is
\* unchanged, and no stored policy or claim refers to a missing parent after a
\* delete.
C17_DeleteCascades ==
    (Answered /\ last.exc = "None") =>
        LET id == sess.req.id
        IN  /\ sess.req.op = "delete_policyholder" =>
                 /\ db.policyholder = Rest(base.policyholder, {id})
                 /\ db.policy = Rest(base.policy, PoliciesOf(base, id))
                 /\ db.claim = Rest(base.claim, ClaimsOf(base, PoliciesOf(base, id)))
                 /\ NoDangling(db)
            /\ sess.req.op = "delete_policy" =>
                 /\ db.policyholder = base.policyholder
                 /\ db.policy = Rest(base.policy, {id})
                 /\ db.claim = Rest(base.claim, ClaimsOf(base, {id}))
                 /\ NoDangling(db)
            /\ sess.req.op = "delete_claim" =>
                 /\ db.policyholder = base.policyholder
                 /\ db.policy = base.policy
                 /\ db.claim = Rest(base.claim, {id})
                 /\ NoDangling(db)

\* delete_policyholder has removed a policyholder that had a policy with a claim
C17_Witness ==
    /\ Answered
    /\ sess.req.op = "delete_policyholder"
    /\ last.exc = "None"
    /\ PoliciesOf(base, sess.req.id) # {}
    /\ ClaimsOf(base, PoliciesOf(base, sess.req.id)) # {}
    /\ db = EmptyDb

\* the keys of the rows of a table: the row's own id and its parent reference
C20_Keys(table) ==
    [k \in DOMAIN table |->
        [f \in DOMAIN table[k] \cap {"policyholder_id", "policy_id", "claim_id"}
            |-> table[k][f]]]

\* C20: in the HTTP API an update request, whatever its payload, leaves the
\* record's own id and its parent reference as they were, and modifies no other
\* record.
C20_UpdateKeepsKeys ==
    Answered =>
        /\ sess.req.op \in UpdateOps =>
               /\ C20_Keys(db.policyholder) = C20_Keys(base.policyholder)
               /\ C20_Keys(db.policy) = C20_Keys(base.policy)
               /\ C20_Keys(db.claim) = C20_Keys(base.claim)
        /\ sess.req.op = "update_policyholder" =>
               db.policy = base.policy /\ db.claim = base.claim
        /\ sess.req.op = "update_policy" =>
               db.policyholder = base.policyholder /\ db.claim = base.claim
        /\ sess.req.op = "update_claim" =>
               db.policyholder = base.policyholder /\ db.policy = base.policy

\* update_policy has changed a policy on a payload that carried a
\* policyholder_id other than the policy's
C20_Witness ==
    /\ Answered
    /\ sess.req.op = "update_policy"
    /\ last.exc = "None"
    /\ "policyholder_id" \in DOMAIN sess.req.data
    /\ db.policy # base.policy
    /\ db.policy[sess.req.id].policyholder_id # sess.req.data.policyholder_id
====
